---- MODULE Spec2Model ----
(***************************************************************************)
(* Model of the asynchronous split-task orchestrator                       *)
(* (backend/src/services/task_service.py, class TaskService) together with *)
(* the split engine it drives (backend/src/services/pdf_splitter.py).      *)
(*                                                                         *)
(* Scheduling: everything runs on one asyncio event loop.  A coroutine     *)
(* keeps the loop until it really suspends.  `await self._save_task(..)`,  *)
(* `await self._task_queue.put(..)` (unbounded queue) and                  *)
(* `await self.pdf_splitter.split_pdf(..)` contain no suspension point, so *)
(* the only places where another coroutine can run are                     *)
(*   - `await self._task_queue.get()` on an empty queue   (worker idle),   *)
(*   - `await processing_task`                            (worker waits),  *)
(*   - the gap between asyncio.create_task(..) and the first step of the   *)
(*     coroutine it scheduled.                                             *)
(* The steps of a running _process_split_task are separate actions so that *)
(* its intermediate writes are visible, and LoopFree keeps every other     *)
(* coroutine from running between them.  Which ready coroutine runs next   *)
(* is otherwise left open, except that callbacks scheduled by a processing *)
(* task run before the wake-up of the worker awaiting it (call_soon is     *)
(* first in, first out).                                                   *)
(*                                                                         *)
(* _process_split_task catches every Exception itself, so the worker's own *)
(* `except Exception` branch (lines 78-80) is never entered.               *)
(*                                                                         *)
(* Spec is the service under every API call short of shutdown; SpecPool   *)
(* is a run in which more one-chapter tasks than workers are created;      *)
(* SpecStop is a run that ends in stop_workers; SpecRestart is a fresh     *)
(* service over the task directory an earlier run left.                    *)
(***************************************************************************)
EXTENDS Integers, Sequences, FiniteSets, TLC

\* ---------------------------------------------------------------- bounds
\* number of worker loops started (_max_concurrent_tasks; a setting)
NumWorkers == 2
\* number of create_split_task calls in one run
MaxTasks == 2
\* longest chapter list passed to create_split_task
MaxChapters == 2
\* number of clock ticks (datetime.now() advancing) in one run
MaxTime == 1

Workers == 1..NumWorkers
\* number of create_split_task calls in a run that overloads the pool
PoolTasks == NumWorkers + 1
TaskIds == 1..(IF MaxTasks > PoolTasks THEN MaxTasks ELSE PoolTasks)
\* file_id values: the upload directory of "f1" holds original.pdf, that of
\* "gone" does not
FileIds == {"f1", "gone"}
ExistingFiles == {"f1"}
\* the create_split_task requests made: <<file_id, number of chapters>>.  The
\* chapters of a request whose file is missing are never read.
Requests == {<<"gone", 1>>} \cup {<<"f1", n>> : n \in 0..MaxChapters}

PENDING == "pending"
PROCESSING == "processing"
COMPLETED == "completed"
FAILED == "failed"

\* Python's None, for a string and for a datetime
None == "None"
NoTime == << >>
\* a datetime
At(t) == <<t>>
\* the stop signal stop_workers puts on the queue: None, which is no task_id
StopSignal == 0
CancelMessage == "task cancelled"
FileMissingMessage == "file does not exist"
SplitFailedMessage == "split failed"

VARIABLES
    initialized,    \* self._initialized
    tasks,          \* keys of self.tasks
    rec,            \* the SplitTask objects, by task_id
    disk,           \* upload_dir/tasks/<task_id>.json, by task_id
    queue,          \* self._task_queue
    nextId,         \* number of task ids handed out (uuid4 is fresh)
    now,            \* datetime.now()
    wpc,            \* where each _worker coroutine stands
    wtask,          \* task_id a worker dequeued and is processing (0: none)
    ppc,            \* where the _process_split_task spawned by a worker stands
    pidx,           \* split_pdf's loop index i
    plinks,         \* split_pdf's download_links
    deferred,       \* pending asyncio.create_task(self._save_task(task)), per task
    diskFaulty,     \* whether writes to the task directory can fail in this run
    burst,          \* more tasks than workers have been waiting in the queue at once
    workerTasks,    \* len(self._worker_tasks)
    spc,            \* where the stop_workers coroutine stands
    backlog,        \* the task_ids that were waiting in the queue when stop_workers was called
    ret             \* what the API call that was just made returned (NoReturn otherwise)

vars == <<initialized, tasks, rec, disk, queue, nextId, now, wpc, wtask, ppc,
          pidx, plinks, deferred, diskFaulty, burst, workerTasks, spc, backlog, ret>>

\* ------------------------------------------------------------ helpers

\* The event loop is free: no _process_split_task is between its first
\* statement and its return (it never suspends in between).
LoopFree == \A w \in Workers : ppc[w] \notin {"started", "split"}

\* SplitTask(task_id=.., file_id=.., chapters=.., status=PENDING, progress=0):
\* the fields not passed take the model's defaults.
NewSplitTask(id, file, chapters, t) ==
    [task_id |-> id, file_id |-> file, chapters |-> chapters,
     status |-> PENDING, progress |-> 0, error_message |-> None,
     created_at |-> At(t), completed_at |-> NoTime, download_links |-> << >>]

\* datetime.isoformat(): the timestamp as text
IsoFormat(t) == <<"iso", t[1]>>
\* datetime.fromisoformat()
FromIsoFormat(s) == At(s[2])

\* The dictionary _save_task dumps: model_dump() with created_at, and
\* completed_at when set, replaced by their isoformat text.
Dump(r) ==
    [r EXCEPT !.created_at = IsoFormat(r.created_at),
              !.completed_at = IF r.completed_at # NoTime
                               THEN IsoFormat(r.completed_at) ELSE NoTime]

\* what a snapshot file holds when the write failed after open(.., "w") had
\* emptied it: nothing that json.load accepts
Unreadable == [unreadable |-> TRUE]

\* _save_task: writes the dump of the object as it is now.  A write that
\* fails is logged; it leaves the file as it was when it fails before the file
\* is opened ("unwritten"), and unreadable when it fails after ("truncated").
SaveTask(d, r, how) ==
    IF how = "unwritten" THEN d
    ELSE [x \in (DOMAIN d) \cup {r.task_id} |->
             IF x = r.task_id
             THEN (IF how = "written" THEN Dump(r) ELSE Unreadable)
             ELSE d[x]]

\* outcomes a write can have in this run
SaveOutcomes == IF diskFaulty THEN {"written", "unwritten", "truncated"} ELSE {"written"}

\* a _save_task whose exception reaches the caller: the caller does not get
\* to the statements after the save
Propagated(how, after, before) == IF how = "written" THEN after ELSE before

\* the state a caller of `await self._save_task(task)` goes on with: the
\* `except Exception` of _save_task lets no failure out, so the statements
\* after the save run whatever the write did
Absorbed(how, after, before) == after

\* a load that parses created_at and drops completed_at
LoadTaskCreatedOnly(s) ==
    [s EXCEPT !.created_at = FromIsoFormat(s.created_at), !.completed_at = NoTime]

\* _load_existing_tasks: one SplitTask per snapshot file
LoadTask(s) ==
    [s EXCEPT !.created_at = FromIsoFormat(s.created_at),
              !.completed_at = IF s.completed_at # NoTime
                               THEN FromIsoFormat(s.completed_at) ELSE NoTime]

\* task objects some coroutine still holds
Held(pp, wt, df) ==
    {wt[w] : w \in {x \in Workers : pp[x] # "none"}} \cup {t \in DOMAIN df : df[t] > 0}

\* drop the objects nothing refers to any more
Collect(r, keys, pp, wt, df) ==
    [t \in (DOMAIN r) \cap (keys \cup Held(pp, wt, df)) |-> r[t]]

\* an API call on task_id t returning: success or failure (ok), a count
Returned(call, t, ok, count) == [call |-> call, task_id |-> t, ok |-> ok, count |-> count]

\* no API call has just returned
NoReturn == Returned(None, 0, FALSE, 0)

\* ------------------------------------------------------------ Init

Init ==
    /\ initialized = FALSE
    /\ tasks = {}
    /\ rec = << >>
    /\ disk = << >>
    /\ queue = << >>
    /\ nextId = 0
    /\ now = 0
    /\ wpc = [w \in Workers |-> "unstarted"]
    /\ wtask = [w \in Workers |-> 0]
    /\ ppc = [w \in Workers |-> "none"]
    /\ pidx = [w \in Workers |-> 0]
    /\ plinks = [w \in Workers |-> << >>]
    /\ deferred = [t \in TaskIds |-> 0]
    /\ diskFaulty = FALSE
    /\ burst = FALSE
    /\ workerTasks = 0
    /\ spc = "none"
    /\ backlog = {}
    /\ ret = NoReturn

\* ------------------------------------------------------------ API calls

\* _load_existing_tasks: every snapshot becomes an entry of self.tasks; a file
\* that cannot be read is logged and passed over
LoadExistingTasks == [t \in {x \in DOMAIN disk : disk[x] # Unreadable} |-> LoadTask(disk[t])]

\* a load that puts the Pending tasks it finds back on the queue
QueueAfterLoadPending(q, snapshots) ==
    q \o SelectSeq([i \in 1..Cardinality(TaskIds) |-> i],
                   LAMBDA i : i \in DOMAIN snapshots /\ snapshots[i].status = PENDING)

\* the queue after _load_existing_tasks: it fills self.tasks and puts nothing
\* on the queue
QueueAfterLoad(q, snapshots) == q

\* _start_workers: one _worker coroutine per configured slot, each running up
\* to its first `await self._task_queue.get()`
StartWorkers == [w \in Workers |-> "idle"]

\* len(self._worker_tasks) after _start_workers, n before it
WorkerTasksAfterStart(n) == n + NumWorkers

\* an _ensure_initialized that leaves the flag as it was
InitializedNotSet == FALSE

\* self._initialized after `self._initialized = True`
InitializedAfterStart == TRUE

\* record r in the object map m
Put(m, r) == [x \in (DOMAIN m) \cup {r.task_id} |-> IF x = r.task_id THEN r ELSE m[x]]

\* the record create_split_task builds
CreatedTask(id, file, chapters) == NewSplitTask(id, file, chapters, now)

\* a put() that runs twice
EnqueueTwice(q, id) == Append(Append(q, id), id)

\* what create_split_task puts on the queue
Enqueue(q, id) == Append(q, id)

\* get_task_status / get_queue_status / get_active_tasks on a fresh service:
\* _ensure_initialized loads the snapshots and starts the workers
EnsureInitialized ==
    /\ LoopFree
    /\ ~initialized
    /\ initialized' = InitializedAfterStart
    /\ rec' = LoadExistingTasks
    /\ tasks' = DOMAIN LoadExistingTasks
    /\ wpc' = StartWorkers
    /\ workerTasks' = WorkerTasksAfterStart(workerTasks)
    /\ queue' = QueueAfterLoad(queue, disk)
    /\ UNCHANGED <<disk, nextId, now, wtask, ppc, pidx, plinks, deferred,
                   diskFaulty, burst, spc, backlog>>
    /\ ret' = NoReturn

\* create_split_task(file_id, chapters); chapters is a list of n descriptors
CreateSplitTask(file, n) ==
    /\ LoopFree
    /\ LET id == nextId + 1
           task == CreatedTask(id, file, n)
           base == IF initialized THEN rec ELSE LoadExistingTasks
           keys == IF initialized THEN tasks ELSE DOMAIN LoadExistingTasks
       IN /\ nextId' = id
          /\ initialized' = (initialized \/ InitializedAfterStart)
          /\ wpc' = IF initialized THEN wpc ELSE StartWorkers
          /\ workerTasks' = IF initialized THEN workerTasks
                            ELSE WorkerTasksAfterStart(workerTasks)
          /\ tasks' = keys \cup {id}
          /\ rec' = Put(base, task)
          /\ \E how \in SaveOutcomes :
                /\ disk' = SaveTask(disk, task, how)
                /\ queue' = Absorbed(how,
                                     Enqueue(IF initialized THEN queue
                                             ELSE QueueAfterLoad(queue, disk), id),
                                     queue)
          /\ burst' = (burst \/ Len(queue') > NumWorkers)
          /\ ret' = Returned("create", id, TRUE, 0)
    /\ UNCHANGED <<now, wtask, ppc, pidx, plinks, deferred, diskFaulty, spc, backlog>>

\* a cancel_task that acts on every record not yet Failed
CancellableAny == {PENDING, PROCESSING, COMPLETED}

\* a cancel_task that does not stamp completed_at
CancelledWithoutTime(r) == [r EXCEPT !.status = FAILED, !.error_message = CancelMessage]

\* a cancel_task that also acts on a record that already failed
CancellableFailed == {PENDING, PROCESSING, FAILED}

\* the statuses cancel_task acts on
Cancellable == {PENDING, PROCESSING}

\* the record cancel_task leaves
Cancelled(r) ==
    [r EXCEPT !.status = FAILED, !.error_message = CancelMessage, !.completed_at = At(now)]

\* cancel_task(task_id)
CancelTask(t) ==
    /\ LoopFree
    /\ IF t \in tasks /\ rec[t].status \in Cancellable
       THEN /\ rec' = [rec EXCEPT ![t] = Cancelled(rec[t])]
            /\ \E how \in SaveOutcomes : disk' = SaveTask(disk, rec'[t], how)
            /\ ret' = Returned("cancel", t, TRUE, 0)
       ELSE /\ ret' = Returned("cancel", t, FALSE, 0)
            /\ UNCHANGED <<rec, disk>>
    /\ UNCHANGED <<initialized, tasks, queue, nextId, now, wpc, wtask, ppc, pidx,
                   plinks, deferred, diskFaulty, burst, workerTasks, spc, backlog>>

\* a cleanup that goes by the age of the record, whatever its status
TasksToRemoveByAge(maxAge) == {t \in tasks : rec[t].created_at[1] < now - maxAge}

\* a cleanup that also removes the records completed exactly max_age ago
TasksToRemoveInclusive(maxAge) ==
    {t \in tasks : /\ rec[t].status \in {COMPLETED, FAILED}
                   /\ rec[t].completed_at # NoTime
                   /\ rec[t].completed_at[1] <= now - maxAge}

\* the task_ids cleanup_completed_tasks(max_age) removes; max_age in clock ticks
TasksToRemove(maxAge) ==
    {t \in tasks : /\ rec[t].status \in {COMPLETED, FAILED}
                   /\ rec[t].completed_at # NoTime
                   /\ rec[t].completed_at[1] < now - maxAge}

\* cleanup_completed_tasks(max_age_hours)
CleanupCompletedTasks(maxAge) ==
    /\ LoopFree
    /\ LET gone == TasksToRemove(maxAge)
       IN /\ tasks' = tasks \ gone
          /\ rec' = Collect(rec, tasks', ppc, wtask, deferred)
          /\ disk' = [t \in (DOMAIN disk) \ gone |-> disk[t]]
          /\ ret' = Returned("cleanup", 0, TRUE, Cardinality(gone))
    /\ UNCHANGED <<initialized, queue, nextId, now, wpc, wtask, ppc, pidx, plinks,
                   deferred, diskFaulty, burst, workerTasks, spc, backlog>>

\* datetime.now() moves on
Tick ==
    /\ LoopFree
    /\ now < MaxTime
    /\ now' = now + 1
    /\ UNCHANGED <<initialized, tasks, rec, disk, queue, nextId, wpc, wtask, ppc,
                   pidx, plinks, deferred, diskFaulty, burst, workerTasks, spc, backlog>>
    /\ ret' = NoReturn

\* ------------------------------------------------------------ workers

\* a get() that hands out the newest identifier
DequeuedLast(q) == q[Len(q)]

\* `task_id = await self._task_queue.get()`: the identifier handed out
Dequeued(q) == Head(q)

\* a get() that leaves the item in the queue
AfterGetKeepsItem(q) == q

\* the queue after that get()
AfterGet(q) == Tail(q)

\* a worker that tests for the wrong status
ShouldProcessWrongStatus(t) == t \in tasks /\ rec[t].status = PROCESSING

\* a worker that processes every record it finds, whatever its status
ShouldProcessAnyStatus(t) == t \in tasks

\* `if task and task.status == TaskStatus.PENDING`
ShouldProcess(t) == t \in tasks /\ rec[t].status = PENDING

\* One turn of the _worker loop, from get() returning to the next suspension:
\* the worker either spawns _process_split_task and awaits it, or marks the
\* item done and is back at get().
WorkerDequeue(w) ==
    /\ LoopFree
    /\ wpc[w] = "idle"
    /\ queue # << >>
    /\ Dequeued(queue) # StopSignal
    /\ LET t == Dequeued(queue)
       IN /\ queue' = AfterGet(queue)
          /\ IF ShouldProcess(t)
             THEN /\ wpc' = [wpc EXCEPT ![w] = "await"]
                  /\ wtask' = [wtask EXCEPT ![w] = t]
                  /\ ppc' = [ppc EXCEPT ![w] = "ready"]
             ELSE UNCHANGED <<wpc, wtask, ppc>>
    /\ UNCHANGED <<initialized, tasks, rec, disk, nextId, now, pidx, plinks,
                   deferred, diskFaulty, burst, workerTasks, spc, backlog>>
    /\ ret' = NoReturn

\* The turn of the _worker loop in which get() returns the stop signal: the
\* worker breaks out of its loop and its coroutine returns.
WorkerExit(w) ==
    /\ LoopFree
    /\ wpc[w] = "idle"
    /\ queue # << >>
    /\ Dequeued(queue) = StopSignal
    /\ queue' = AfterGet(queue)
    /\ wpc' = [wpc EXCEPT ![w] = "exited"]
    /\ UNCHANGED <<initialized, tasks, rec, disk, nextId, now, wtask, ppc, pidx,
                   plinks, deferred, diskFaulty, burst, workerTasks, spc, backlog>>
    /\ ret' = NoReturn

\* the record after the first statements of _process_split_task
Started(r) == [r EXCEPT !.status = PROCESSING, !.progress = 0]

\* _process_split_task begins: status PROCESSING, progress 0, saved
ProcessStart(w) ==
    /\ LoopFree
    /\ ppc[w] = "ready"
    /\ LET t == wtask[w]
       IN /\ rec' = [rec EXCEPT ![t] = Started(rec[t])]
          /\ \E how \in SaveOutcomes : disk' = SaveTask(disk, rec'[t], how)
    /\ ppc' = [ppc EXCEPT ![w] = "started"]
    /\ UNCHANGED <<initialized, tasks, queue, nextId, now, wpc, wtask, pidx, plinks,
                   deferred, diskFaulty, burst, workerTasks, spc, backlog>>
    /\ ret' = NoReturn

\* a failure that does not stamp completed_at
FailedWithoutTime(r, msg) == [r EXCEPT !.status = FAILED, !.error_message = msg]

\* the record the `except Exception` branch of _process_split_task leaves
FailedWith(r, msg) ==
    [r EXCEPT !.status = FAILED, !.error_message = msg, !.completed_at = At(now)]

\* the `except Exception` branch, then the coroutine returns
ProcessFail(w, msg) ==
    /\ LET t == wtask[w]
       IN /\ rec' = [rec EXCEPT ![t] = FailedWith(rec[t], msg)]
          /\ \E how \in SaveOutcomes : disk' = SaveTask(disk, rec'[t], how)
    /\ ppc' = [ppc EXCEPT ![w] = "done"]
    /\ pidx' = [pidx EXCEPT ![w] = 0]
    /\ plinks' = [plinks EXCEPT ![w] = << >>]
    /\ UNCHANGED <<initialized, tasks, queue, nextId, now, wpc, wtask, deferred,
                   diskFaulty, burst, workerTasks, spc, backlog>>
    /\ ret' = NoReturn

\* `if not file_path.exists(): raise`
ProcessFileMissing(w) ==
    /\ ppc[w] = "started"
    /\ rec[wtask[w]].file_id \notin ExistingFiles
    /\ ProcessFail(w, FileMissingMessage)

\* split_pdf raises outside its per-chapter try (fitz.open of the source fails)
ProcessSplitRaises(w) ==
    /\ ppc[w] = "started"
    /\ rec[wtask[w]].file_id \in ExistingFiles
    /\ ProcessFail(w, SplitFailedMessage)

\* split_pdf opens the source and enters its loop over the chapters
ProcessSplitOpen(w) ==
    /\ ppc[w] = "started"
    /\ rec[wtask[w]].file_id \in ExistingFiles
    /\ ppc' = [ppc EXCEPT ![w] = "split"]
    /\ pidx' = [pidx EXCEPT ![w] = 0]
    /\ plinks' = [plinks EXCEPT ![w] = << >>]
    /\ UNCHANGED <<initialized, tasks, rec, disk, queue, nextId, now, wpc, wtask,
                   deferred, diskFaulty, burst, workerTasks, spc, backlog>>
    /\ ret' = NoReturn

\* a split that reports the share of the chapters still to do
ProgressRemaining(i, total) == ((total - (i + 1)) * 100) \div total

\* progress = int((i + 1) / total_chapters * 100); for the chapter counts of
\* the model the float product truncates to the integer quotient
Progress(i, total) == ((i + 1) * 100) \div total

\* split_pdf's download_links after chapter i, whose artifact was written (ok)
\* or whose copy raised (the except branch: continue)
LinksAfter(links, i, ok) == IF ok THEN Append(links, i + 1) ELSE links

\* _update_task_progress(task_id, progress): the record it leaves
WithProgress(r, p) == [r EXCEPT !.progress = p]

\* one iteration of split_pdf's loop
SplitChapter(w, ok) ==
    /\ ppc[w] = "split"
    /\ LET t == wtask[w]
           i == pidx[w]
       IN /\ i < rec[t].chapters
          /\ plinks' = [plinks EXCEPT ![w] = LinksAfter(plinks[w], i, ok)]
          /\ pidx' = [pidx EXCEPT ![w] = i + 1]
          /\ IF ok /\ t \in tasks
             THEN /\ rec' = [rec EXCEPT ![t] = WithProgress(rec[t], Progress(i, rec[t].chapters))]
                  /\ deferred' = [deferred EXCEPT ![t] = @ + 1]
             ELSE UNCHANGED <<rec, deferred>>
    /\ UNCHANGED <<initialized, tasks, disk, queue, nextId, now, wpc, wtask, ppc,
                   diskFaulty, burst, workerTasks, spc, backlog>>
    /\ ret' = NoReturn

\* a completion that leaves progress at the last value reported
CompletedKeepsProgress(r, links) ==
    [r EXCEPT !.status = COMPLETED, !.completed_at = At(now), !.download_links = links]

\* a completion that leaves a cancelled record as it is
CompletedUnlessCancelled(r, links) ==
    IF r.error_message = CancelMessage THEN r
    ELSE [r EXCEPT !.status = COMPLETED, !.progress = 100, !.completed_at = At(now),
                   !.download_links = links]

\* the record after split_pdf returned links
CompletedWith(r, links) ==
    [r EXCEPT !.status = COMPLETED, !.progress = 100, !.completed_at = At(now),
              !.download_links = links]

\* split_pdf returns; the task is completed and saved
ProcessComplete(w) ==
    /\ ppc[w] = "split"
    /\ LET t == wtask[w]
       IN /\ pidx[w] = rec[t].chapters
          /\ rec' = [rec EXCEPT ![t] = CompletedWith(rec[t], plinks[w])]
          /\ \E how \in SaveOutcomes : disk' = SaveTask(disk, rec'[t], how)
    /\ ppc' = [ppc EXCEPT ![w] = "done"]
    /\ pidx' = [pidx EXCEPT ![w] = 0]
    /\ plinks' = [plinks EXCEPT ![w] = << >>]
    /\ UNCHANGED <<initialized, tasks, queue, nextId, now, wpc, wtask, deferred,
                   diskFaulty, burst, workerTasks, spc, backlog>>
    /\ ret' = NoReturn

\* `await processing_task` returns: the worker drops the processing task,
\* marks the item done and is back at get().  The loop runs callbacks in the
\* order they were scheduled: the saves _update_task_progress scheduled while
\* the processing task ran come before the wake-up the task schedules when it
\* returns.
WorkerResume(w) ==
    /\ LoopFree
    /\ wpc[w] = "await"
    /\ ppc[w] = "done"
    /\ deferred[wtask[w]] = 0
    /\ wpc' = [wpc EXCEPT ![w] = "idle"]
    /\ ppc' = [ppc EXCEPT ![w] = "none"]
    /\ wtask' = [wtask EXCEPT ![w] = 0]
    /\ rec' = Collect(rec, tasks, ppc', wtask', deferred)
    /\ UNCHANGED <<initialized, tasks, disk, queue, nextId, now, pidx, plinks,
                   deferred, diskFaulty, burst, workerTasks, spc, backlog>>
    /\ ret' = NoReturn

\* a save scheduled by _update_task_progress runs: it writes the object as it
\* is when the write runs
DeferredSave(t) ==
    /\ LoopFree
    /\ deferred[t] > 0
    /\ \E how \in SaveOutcomes : disk' = SaveTask(disk, rec[t], how)
    /\ deferred' = [deferred EXCEPT ![t] = @ - 1]
    /\ rec' = Collect(rec, tasks, ppc, wtask, deferred')
    /\ UNCHANGED <<initialized, tasks, queue, nextId, now, wpc, wtask, ppc, pidx,
                   plinks, diskFaulty, burst, workerTasks, spc, backlog>>
    /\ ret' = NoReturn

\* ------------------------------------------------------------ shutdown

\* a stop_workers that sends one stop signal too few
StopSignalsOneShort(n) == [i \in 1..(n - 1) |-> StopSignal]

\* `for _ in self._worker_tasks: await self._task_queue.put(None)`
StopSignals(n) == [i \in 1..n |-> StopSignal]

\* a stop_workers whose stop signals go to the front of the queue
QueueAfterStopFirst(q, n) == StopSignals(n) \o q

\* the queue after the put loop of stop_workers: the stop signals go behind
\* what is waiting
QueueAfterStop(q, n) == q \o StopSignals(n)

\* the worker coroutines in self._worker_tasks that have not returned
RunningWorkers == {w \in Workers : wpc[w] \notin {"unstarted", "exited"}}

\* `for task in self._processing_tasks.values(): task.cancel()`: a processing
\* task that has not taken its first step never runs; one that has returned is
\* left as it is
CancelProcessing(pp) == [w \in Workers |-> IF pp[w] = "ready" THEN "none" ELSE pp[w]]

\* stop_workers returns
StopWorkersDone ==
    /\ ppc' = CancelProcessing(ppc)
    /\ spc' = "returned"
    /\ ret' = Returned("stop", 0, TRUE, 0)

\* stop_workers, called once at shutdown, up to its suspension in
\* `await asyncio.gather(*self._worker_tasks)`.  With no worker started there
\* is nothing to wait for and the call returns at once.
StopWorkers ==
    /\ LoopFree
    /\ spc = "none"
    /\ queue' = QueueAfterStop(queue, workerTasks)
    /\ backlog' = {queue[i] : i \in 1..Len(queue)}
    /\ IF workerTasks = 0
       THEN StopWorkersDone
       ELSE /\ spc' = "gather"
            /\ ret' = NoReturn
            /\ UNCHANGED ppc
    /\ UNCHANGED <<initialized, tasks, rec, disk, nextId, now, wpc, wtask, pidx,
                   plinks, deferred, diskFaulty, burst, workerTasks>>

\* gather returns when every worker coroutine has returned; stop_workers then
\* cancels what is left in self._processing_tasks and returns
StopWorkersReturn ==
    /\ LoopFree
    /\ spc = "gather"
    /\ RunningWorkers = {}
    /\ StopWorkersDone
    /\ UNCHANGED <<initialized, tasks, rec, disk, queue, nextId, now, wpc, wtask,
                   pidx, plinks, deferred, diskFaulty, burst, workerTasks, backlog>>

\* ------------------------------------------------------------ specification

Next ==
    \/ EnsureInitialized
    \/ \E r \in Requests : nextId < MaxTasks /\ CreateSplitTask(r[1], r[2])
    \/ \E t \in 1..MaxTasks : CancelTask(t)
    \/ \E a \in 0..MaxTime : CleanupCompletedTasks(a)
    \/ Tick
    \/ \E w \in Workers : WorkerDequeue(w)
    \/ \E w \in Workers : ProcessStart(w)
    \/ \E w \in Workers : ProcessFileMissing(w)
    \/ \E w \in Workers : ProcessSplitRaises(w)
    \/ \E w \in Workers : ProcessSplitOpen(w)
    \/ \E w \in Workers, ok \in BOOLEAN : SplitChapter(w, ok)
    \/ \E w \in Workers : ProcessComplete(w)
    \/ \E w \in Workers : WorkerResume(w)
    \/ \E t \in TaskIds : DeferredSave(t)

Spec == Init /\ [][Next]_vars

\* A run that overloads the pool: PoolTasks one-chapter requests for an
\* existing file, and the workers.
NextPool ==
    \/ nextId < PoolTasks /\ CreateSplitTask("f1", 1)
    \/ \E w \in Workers : WorkerDequeue(w)
    \/ \E w \in Workers : ProcessStart(w)
    \/ \E w \in Workers : ProcessSplitRaises(w)
    \/ \E w \in Workers : ProcessSplitOpen(w)
    \/ \E w \in Workers, ok \in BOOLEAN : SplitChapter(w, ok)
    \/ \E w \in Workers : ProcessComplete(w)
    \/ \E w \in Workers : WorkerResume(w)
    \/ \E t \in TaskIds : DeferredSave(t)

SpecPool == Init /\ [][NextPool]_vars

\* A run that ends in a shutdown: one-chapter requests for an existing file,
\* the workers, and stop_workers called at any moment.
NextStop ==
    \/ EnsureInitialized
    \/ nextId < MaxTasks /\ CreateSplitTask("f1", 1)
    \/ \E t \in 1..MaxTasks : CancelTask(t)
    \/ StopWorkers
    \/ StopWorkersReturn
    \/ \E w \in Workers : WorkerDequeue(w)
    \/ \E w \in Workers : WorkerExit(w)
    \/ \E w \in Workers : ProcessStart(w)
    \/ \E w \in Workers : ProcessSplitRaises(w)
    \/ \E w \in Workers : ProcessSplitOpen(w)
    \/ \E w \in Workers, ok \in BOOLEAN : SplitChapter(w, ok)
    \/ \E w \in Workers : ProcessComplete(w)
    \/ \E w \in Workers : WorkerResume(w)
    \/ \E t \in TaskIds : DeferredSave(t)

SpecStop == Init /\ [][NextStop]_vars

\* The records an earlier run of the service can have left on disk for its
\* one-chapter task 1: Pending (never taken), Processing (the process died
\* during the split), Completed, Failed by the split, or cancelled.
PreviousRecords ==
    LET p == NewSplitTask(1, "f1", 1, 0)
    IN {p, Started(p), CompletedWith(Started(p), <<1>>),
        FailedWith(Started(p), SplitFailedMessage), Cancelled(p)}

\* A fresh TaskService over the task directory an earlier run left.
InitRestart ==
    /\ initialized = FALSE
    /\ tasks = {}
    /\ rec = << >>
    /\ now = 0
    /\ disk \in {[t \in {1} |-> Dump(r)] : r \in PreviousRecords}
    /\ queue = << >>
    /\ nextId = 1
    /\ wpc = [w \in Workers |-> "unstarted"]
    /\ wtask = [w \in Workers |-> 0]
    /\ ppc = [w \in Workers |-> "none"]
    /\ pidx = [w \in Workers |-> 0]
    /\ plinks = [w \in Workers |-> << >>]
    /\ deferred = [t \in TaskIds |-> 0]
    /\ diskFaulty = FALSE
    /\ burst = FALSE
    /\ workerTasks = 0
    /\ spc = "none"
    /\ backlog = {}
    /\ ret = NoReturn

SpecRestart == InitRestart /\ [][Next]_vars

\* A fresh TaskService whose writes to the task directory can fail.
InitFaulty ==
    /\ initialized = FALSE
    /\ tasks = {}
    /\ rec = << >>
    /\ disk = << >>
    /\ queue = << >>
    /\ nextId = 0
    /\ now = 0
    /\ wpc = [w \in Workers |-> "unstarted"]
    /\ wtask = [w \in Workers |-> 0]
    /\ ppc = [w \in Workers |-> "none"]
    /\ pidx = [w \in Workers |-> 0]
    /\ plinks = [w \in Workers |-> << >>]
    /\ deferred = [t \in TaskIds |-> 0]
    /\ diskFaulty = TRUE
    /\ burst = FALSE
    /\ workerTasks = 0
    /\ spc = "none"
    /\ backlog = {}
    /\ ret = NoReturn

\* The calls that save a record, and the workers: one-chapter requests for an
\* existing and for a missing file, and cancel_task.
NextFaulty ==
    \/ EnsureInitialized
    \/ \E f \in FileIds : nextId < MaxTasks /\ CreateSplitTask(f, 1)
    \/ \E t \in 1..MaxTasks : CancelTask(t)
    \/ \E w \in Workers : WorkerDequeue(w)
    \/ \E w \in Workers : ProcessStart(w)
    \/ \E w \in Workers : ProcessFileMissing(w)
    \/ \E w \in Workers : ProcessSplitRaises(w)
    \/ \E w \in Workers : ProcessSplitOpen(w)
    \/ \E w \in Workers, ok \in BOOLEAN : SplitChapter(w, ok)
    \/ \E w \in Workers : ProcessComplete(w)
    \/ \E w \in Workers : WorkerResume(w)
    \/ \E t \in TaskIds : DeferredSave(t)

SpecFaulty == InitFaulty /\ [][NextFaulty]_vars

\* The running pool: requests, cancel_task and the workers; stop_workers is
\* not called.
NextLive ==
    \/ EnsureInitialized
    \/ \E r \in Requests : nextId < MaxTasks /\ CreateSplitTask(r[1], r[2])
    \/ \E t \in 1..MaxTasks : CancelTask(t)
    \/ \E w \in Workers : WorkerDequeue(w)
    \/ \E w \in Workers : ProcessStart(w)
    \/ \E w \in Workers : ProcessFileMissing(w)
    \/ \E w \in Workers : ProcessSplitRaises(w)
    \/ \E w \in Workers : ProcessSplitOpen(w)
    \/ \E w \in Workers, ok \in BOOLEAN : SplitChapter(w, ok)
    \/ \E w \in Workers : ProcessComplete(w)
    \/ \E w \in Workers : WorkerResume(w)
    \/ \E t \in TaskIds : DeferredSave(t)

\* The event loop runs every callback that is ready, in turn: a worker whose
\* get() can return, a spawned processing task, a scheduled save and a worker
\* whose processing task has returned all get to run.  A processing task that
\* has started runs on without suspending, and split_pdf goes through its
\* chapters and returns or raises.
Fairness ==
    /\ \A w \in Workers :
          /\ WF_vars(WorkerDequeue(w))
          /\ WF_vars(ProcessStart(w))
          /\ WF_vars(ProcessFileMissing(w) \/ ProcessSplitRaises(w) \/ ProcessSplitOpen(w))
          /\ WF_vars(\E ok \in BOOLEAN : SplitChapter(w, ok))
          /\ WF_vars(ProcessComplete(w))
          /\ WF_vars(WorkerResume(w))
    /\ \A t \in TaskIds : WF_vars(DeferredSave(t))

SpecLive == Init /\ [][NextLive]_vars /\ Fairness

\* ------------------------------------------------------------ properties

Terminal == {COMPLETED, FAILED}

\* the workers whose processing task exists: spawned and not yet dropped
Executing == {w \in Workers : ppc[w] # "none"}

\* C1: once a task's status is Completed or Failed, no step changes it.
C1_TerminalNeverChanges ==
    [][\A t \in DOMAIN rec :
          (rec[t].status \in Terminal /\ t \in DOMAIN rec')
              => rec'[t].status = rec[t].status]_vars

\* C2: no two workers execute the split of the same task_id at the same time.
C2_OneWorkerPerTask ==
    \A v, w \in Executing : v # w => wtask[v] # wtask[w]

C2_Witness ==
    /\ Cardinality(Executing) = NumWorkers
    /\ \E w \in Workers : ppc[w] = "split"

\* number of times task_id t is in queue q
Occurrences(q, t) == Cardinality({i \in 1..Len(q) : q[i] = t})

\* C3: create_split_task returns a record that did not exist before, is
\* Pending with progress 0, is in the task map, has its snapshot on disk, and
\* whose task_id is in the queue exactly once, at the tail.
C3_CreatePostcondition ==
    [][ret'.call = "create" =>
          LET t == ret'.task_id
          IN /\ t \notin DOMAIN rec /\ t \notin DOMAIN disk /\ Occurrences(queue, t) = 0
             /\ t \in tasks'
             /\ rec'[t].status = PENDING
             /\ rec'[t].progress = 0
             /\ t \in DOMAIN disk' /\ disk'[t] = Dump(rec'[t])
             /\ Occurrences(queue', t) = 1
             /\ queue' = Append(queue, t)]_vars

C3_Witness ==
    /\ ret.call = "create"
    /\ Len(queue) = MaxTasks
    /\ ret.task_id = MaxTasks

\* the source file of record r is missing
FileMissing(r) == r.file_id \notin ExistingFiles

\* C4: a worker takes a task that is Pending; the processing task first makes
\* it Processing with progress 0 and saves it; when split_pdf returns, the
\* Processing record becomes Completed with progress 100, completed_at = now
\* and download_links = the list split_pdf returned, and is saved.
C4_SuccessPath ==
    [][\A w \in Workers :
          /\ (ppc[w] = "none" /\ ppc'[w] = "ready")
                => rec[wtask'[w]].status = PENDING
          /\ (ppc[w] = "ready" /\ ppc'[w] = "started")
                => LET t == wtask[w]
                   IN /\ rec'[t].status = PROCESSING
                      /\ rec'[t].progress = 0
                      /\ t \in DOMAIN disk' /\ disk'[t] = Dump(rec'[t])
          /\ (ppc[w] = "split" /\ ppc'[w] = "done")
                => LET t == wtask[w]
                   IN /\ rec[t].status = PROCESSING
                      /\ rec'[t].status = COMPLETED
                      /\ rec'[t].progress = 100
                      /\ rec'[t].completed_at = At(now)
                      /\ rec'[t].download_links = plinks[w]
                      /\ t \in DOMAIN disk' /\ disk'[t] = Dump(rec'[t])]_vars

\* a task whose chapters were all split: Completed, 100, one link per chapter,
\* after the progress values 50 and 100 were reported
C4_Witness ==
    \E t \in DOMAIN rec :
        /\ rec[t].chapters = MaxChapters
        /\ rec[t].status = COMPLETED
        /\ rec[t].progress = 100
        /\ Len(rec[t].download_links) = MaxChapters
        /\ t \in DOMAIN disk /\ disk[t].status = COMPLETED

\* C5: when the source file is missing or split_pdf raises, the record becomes
\* Failed with the message of that failure and completed_at = now and is
\* saved; the processing task returns normally, the worker is still in its
\* loop, and (whenever the event loop is free) it can go back to get() and take
\* the next identifier.
C5_FailurePath ==
    /\ [][\A w \in Workers :
            /\ (ppc[w] = "started" /\ ppc'[w] = "done")
                  => LET t == wtask[w]
                     IN /\ rec'[t].status = FAILED
                        /\ rec'[t].error_message =
                              (IF FileMissing(rec[t]) THEN FileMissingMessage
                               ELSE SplitFailedMessage)
                        /\ rec'[t].completed_at = At(now)
                        /\ t \in DOMAIN disk' /\ disk'[t] = Dump(rec'[t])
                        /\ wpc'[w] = "await"
            /\ (ppc[w] = "done" /\ ppc'[w] = "none") => wpc'[w] = "idle"]_vars
    /\ [](\A w \in Workers :
            /\ (ppc[w] = "done" /\ deferred[wtask[w]] = 0 /\ LoopFree)
                  => ENABLED WorkerResume(w)
            /\ (wpc[w] = "idle" /\ queue # << >> /\ LoopFree) => ENABLED WorkerDequeue(w))

C5_Witness ==
    \E w \in Workers :
        /\ ppc[w] = "done"
        /\ rec[wtask[w]].status = FAILED
        /\ rec[wtask[w]].error_message = SplitFailedMessage
        /\ queue # << >>

\* the download links of a split in which every chapter was written
AllLinks(n) == [i \in 1..n |-> i]

\* C6: a Completed task has progress 100 and one download link per chapter,
\* in chapter order.
C6_CompletedHasAllLinks ==
    \A t \in DOMAIN rec :
        rec[t].status = COMPLETED
            => /\ rec[t].progress = 100
               /\ rec[t].download_links = AllLinks(rec[t].chapters)

\* C7: a record that is not Completed has no download links.
C7_LinksOnlyWhenCompleted ==
    \A t \in DOMAIN rec :
        rec[t].status # COMPLETED => rec[t].download_links = << >>

\* a cancelled task whose split has already produced an artifact
C7_Witness ==
    \E w \in Workers :
        /\ ppc[w] = "split"
        /\ plinks[w] # << >>
        /\ rec[wtask[w]].error_message = CancelMessage

\* the tasks that have reached Processing
ReachedProcessing == {t \in DOMAIN rec : rec[t].status \in {PROCESSING, COMPLETED, FAILED}}

\* C8: at most NumWorkers processing tasks exist, and when more tasks than
\* workers were queued at once and every worker has taken one, NumWorkers
\* tasks have reached Processing by the time a task is in a terminal state.
C8_PoolFullBeforeFirstTerminal ==
    /\ Cardinality(Executing) <= NumWorkers
    /\ (/\ burst
        /\ Cardinality(Executing) = NumWorkers
        /\ \E t \in DOMAIN rec : rec[t].status \in Terminal)
          => Cardinality(ReachedProcessing) >= NumWorkers

\* C9: get() hands out the identifier that has waited longest: the head of
\* the queue, which was enqueued before every other one waiting (task ids are
\* handed out in creation order).
C9_Fifo ==
    [][/\ Len(queue') < Len(queue)
          => /\ queue' = Tail(queue)
             /\ \A i \in 1..Len(queue') : queue'[i] > Head(queue)
       /\ \A w \in Workers :
            (ppc[w] = "none" /\ ppc'[w] = "ready") => wtask'[w] = Head(queue)]_vars

C9_Witness ==
    \E w \in Workers :
        /\ ppc[w] = "ready"
        /\ queue # << >>
        /\ wtask[w] < Head(queue)
        /\ rec[Head(queue)].created_at = rec[wtask[w]].created_at

\* C10: cancel_task on a Pending or Processing record makes it Failed with the
\* cancellation message and completed_at = now, saves it, and returns True.
C10_CancelActive ==
    [][ret'.call = "cancel" =>
          LET t == ret'.task_id
          IN (t \in tasks /\ rec[t].status \in {PENDING, PROCESSING})
                => /\ ret'.ok
                   /\ rec'[t].status = FAILED
                   /\ rec'[t].error_message = CancelMessage
                   /\ rec'[t].completed_at = At(now)
                   /\ t \in DOMAIN disk' /\ disk'[t] = Dump(rec'[t])]_vars

C10_Witness ==
    /\ ret.call = "cancel"
    /\ ret.ok
    /\ rec[ret.task_id].status = FAILED
    /\ disk[ret.task_id].error_message = CancelMessage

\* C11: cancel_task on a record that is Completed or Failed, or on a task_id
\* that is not in the task map, returns False and changes nothing: the
\* records, the snapshots and the queue are as before, each time it is called.
C11_CancelRefused ==
    [][ret'.call = "cancel" =>
          LET t == ret'.task_id
          IN (t \notin tasks \/ rec[t].status \in Terminal)
                => /\ ~ret'.ok
                   /\ rec' = rec
                   /\ disk' = disk
                   /\ queue' = queue
                   /\ tasks' = tasks]_vars

\* a refused cancel_task call on a Completed record whose snapshot is on disk,
\* while another identifier waits in the queue
C11_Witness ==
    /\ ret.call = "cancel"
    /\ ~ret.ok
    /\ ret.task_id \in tasks
    /\ rec[ret.task_id].status = COMPLETED
    /\ disk[ret.task_id].status = COMPLETED
    /\ queue # << >>

\* the workers holding task_id t: they dequeued it and spawned its processing
HeldBy(t) == {w \in Workers : wtask[w] = t}

\* C12: a worker spawns the processing of a dequeued task_id only when its
\* record is in the task map and Pending; on any other dequeued task_id it
\* changes no record and no snapshot and is back at get().  A task cancelled
\* while no worker holds it is never taken by a worker and keeps its record:
\* Failed, with the cancellation message.
C12_WorkerSkips ==
    [][/\ \A w \in Workers :
             (ppc[w] = "none" /\ ppc'[w] # "none")
                => /\ wtask'[w] = Head(queue)
                   /\ Head(queue) \in tasks
                   /\ rec[Head(queue)].status = PENDING
       /\ (/\ Len(queue') < Len(queue)
           /\ (Head(queue) \notin tasks \/ rec[Head(queue)].status # PENDING))
             => /\ rec' = rec
                /\ disk' = disk
                /\ ppc' = ppc
                /\ wpc' = wpc
       /\ \A t \in DOMAIN rec :
             (/\ rec[t].status = FAILED
              /\ rec[t].error_message = CancelMessage
              /\ HeldBy(t) = {})
                => /\ \A w \in Workers : wtask'[w] # t
                   /\ t \in DOMAIN rec' => rec'[t] = rec[t]]_vars

\* a worker has dequeued the task_id of a cancelled task and skipped it: the
\* record is still Failed with the cancellation message and progress 0, it is
\* neither queued nor held, and the worker is at get()
C12_Witness ==
    \E t \in tasks :
        /\ rec[t].status = FAILED
        /\ rec[t].error_message = CancelMessage
        /\ rec[t].progress = 0
        /\ Occurrences(queue, t) = 0
        /\ HeldBy(t) = {}
        /\ \A w \in Workers : wpc[w] = "idle"
        /\ disk[t].status = FAILED

\* C13: cleanup_completed_tasks never removes a record that is Pending or
\* Processing, whatever the window (0 included) and however old the record:
\* the record stays in the task map, unchanged, and so does its snapshot.
C13_CleanupKeepsActive ==
    [][ret'.call = "cleanup" =>
          \A t \in tasks :
              rec[t].status \in {PENDING, PROCESSING}
                 => /\ t \in tasks'
                    /\ rec'[t] = rec[t]
                    /\ t \in DOMAIN disk => (t \in DOMAIN disk' /\ disk'[t] = disk[t])]_vars

\* a cleanup that removed a record while a Pending record created before the
\* window was in the task map
C13_Witness ==
    /\ ret.call = "cleanup"
    /\ ret.count > 0
    /\ \E t \in tasks :
          /\ rec[t].status = PENDING
          /\ rec[t].created_at[1] < now
          /\ t \in DOMAIN disk

\* the records cleanup_completed_tasks(maxAge) is to remove: Completed or
\* Failed, and completed before now - maxAge
Expired(maxAge) ==
    {t \in tasks : /\ rec[t].status \in Terminal
                   /\ rec[t].completed_at # NoTime
                   /\ rec[t].completed_at[1] < now - maxAge}

\* C14: cleanup_completed_tasks(window) removes exactly the Completed and
\* Failed records whose completed_at is older than the window, from the task
\* map and from the disk together, returns how many it removed, and leaves
\* every other record and snapshot as it was.
C14_CleanupExact ==
    [][\A a \in 0..MaxTime :
          CleanupCompletedTasks(a)
             => /\ tasks' = tasks \ Expired(a)
                /\ DOMAIN disk' = (DOMAIN disk) \ Expired(a)
                /\ ret'.call = "cleanup"
                /\ ret'.count = Cardinality(Expired(a))
                /\ \A t \in tasks' : rec'[t] = rec[t]
                /\ \A t \in DOMAIN disk' : disk'[t] = disk[t]
                /\ queue' = queue]_vars

\* a cleanup that removed one record and left a terminal record that was
\* completed within the window, with its snapshot
C14_Witness ==
    /\ ret.call = "cleanup"
    /\ ret.count = 1
    /\ \E t \in tasks :
          /\ rec[t].status \in Terminal
          /\ rec[t].completed_at = At(now)
          /\ t \in DOMAIN disk

\* C15: the progress of every task is an integer in 0..100 in every state,
\* and no step from a state in which the task is Processing to a state in
\* which it is Processing lowers it.
C15_ProgressBoundedMonotone ==
    /\ [](\A t \in DOMAIN rec : rec[t].progress \in 0..100)
    /\ [](\A t \in DOMAIN disk : disk[t].progress \in 0..100)
    /\ [][\A t \in DOMAIN rec :
            (/\ rec[t].status = PROCESSING
             /\ t \in DOMAIN rec'
             /\ rec'[t].status = PROCESSING)
               => rec'[t].progress >= rec[t].progress]_vars

\* split_pdf has been through every chapter of a task of MaxChapters chapters,
\* only one of which was written and reported
C15_Witness ==
    \E w \in Workers :
        /\ ppc[w] = "split"
        /\ rec[wtask[w]].chapters = MaxChapters
        /\ pidx[w] = MaxChapters
        /\ rec[wtask[w]].status = PROCESSING
        /\ rec[wtask[w]].progress > 0
        /\ Len(plinks[w]) = 1

\* C16: a Pending record has progress 0, and progress is 100 only from the
\* step that makes the task Completed: no Pending or Processing record has
\* progress 100.
C16_ProgressEndpoints ==
    \A t \in DOMAIN rec :
        /\ rec[t].status = PENDING => rec[t].progress = 0
        /\ rec[t].status \in {PENDING, PROCESSING} => rec[t].progress # 100

\* C17: only a Failed record has an error_message.
C17_ErrorOnlyWhenFailed ==
    \A t \in DOMAIN rec :
        rec[t].status # FAILED => rec[t].error_message = None

\* C18: create_split_task with an empty chapter list is rejected: it returns
\* no record, and no record is created, nothing is saved and nothing is put
\* on the queue.
C18_EmptyChaptersRejected ==
    [][\A f \in FileIds :
          CreateSplitTask(f, 0)
             => /\ ~ret'.ok
                /\ tasks' = tasks
                /\ rec' = rec
                /\ disk' = disk
                /\ queue' = queue]_vars

\* C19: the service is initialized at most once.  The first use loads every
\* snapshot on disk into the task map and starts NumWorkers worker loops;
\* no later call starts another, and the number of worker loops started
\* never exceeds NumWorkers.
C19_InitializedOnce ==
    /\ [](workerTasks <= NumWorkers)
    /\ [](initialized => (workerTasks = NumWorkers /\ \A w \in Workers : wpc[w] # "unstarted"))
    /\ [][(~initialized /\ initialized')
            => /\ \A t \in DOMAIN disk : t \in tasks' /\ Dump(rec'[t]) = disk[t]
               /\ workerTasks' = NumWorkers]_vars
    /\ [][initialized => (initialized' /\ workerTasks' = workerTasks)]_vars

\* after the first use, a second API call created a task and a third one
\* cancelled the Pending task that was loaded from disk
C19_Witness ==
    /\ initialized
    /\ workerTasks = NumWorkers
    /\ nextId = MaxTasks
    /\ ret.call = "cancel"
    /\ ret.ok
    /\ ret.task_id = 1
    /\ rec[1].created_at = At(0)

\* the worker loops that were started
StartedWorkers == {w \in Workers : wpc[w] # "unstarted"}

\* the worker loops that have returned
ExitedWorkers == {w \in Workers : wpc[w] = "exited"}

\* C20: stop_workers appends one stop signal per started worker to the
\* queue; a worker leaves its loop exactly when it takes a stop signal, takes
\* no other, and never runs again, so that stop signals waiting plus workers
\* returned changes on no other step; and stop_workers returns only when
\* every worker loop has returned and no processing task is left.
C20_StopWorkers ==
    /\ [][(spc = "none" /\ spc' # "none")
            => /\ Len(queue') = Len(queue) + Cardinality(StartedWorkers)
               /\ SubSeq(queue', 1, Len(queue)) = queue
               /\ \A i \in (Len(queue) + 1)..Len(queue') : queue'[i] = StopSignal]_vars
    /\ [][/\ \A w \in Workers :
                /\ (wpc[w] # "exited" /\ wpc'[w] = "exited")
                      => /\ Head(queue) = StopSignal
                         /\ queue' = Tail(queue)
                         /\ \A v \in Workers \ {w} : wpc'[v] = wpc[v]
                /\ wpc[w] = "exited" => (wpc'[w] = "exited" /\ ppc'[w] = "none")
           /\ Occurrences(queue', StopSignal) < Occurrences(queue, StopSignal)
                => /\ Occurrences(queue', StopSignal) = Occurrences(queue, StopSignal) - 1
                   /\ \E v \in Workers : wpc[v] = "idle" /\ wpc'[v] = "exited"]_vars
    /\ [][~(spc = "none" /\ spc' # "none")
            => Occurrences(queue', StopSignal) + Cardinality(ExitedWorkers')
                  = Occurrences(queue, StopSignal) + Cardinality(ExitedWorkers)]_vars
    /\ [][ret'.call = "stop"
            => \A w \in Workers : /\ wpc[w] \in {"unstarted", "exited"}
                                  /\ ppc[w] = "none"
                                  /\ ppc'[w] = "none"]_vars

\* stop_workers has returned after every worker took its stop signal; a task
\* queued before the call was split while the call was waiting
C20_Witness ==
    /\ ret.call = "stop"
    /\ ExitedWorkers = Workers
    /\ Occurrences(queue, StopSignal) = 0
    /\ \E t \in tasks : rec[t].status = COMPLETED /\ rec[t].completed_at = At(0)

C22_CancelIsAdvisory ==
    /\ [][(ret'.call = "cancel" /\ ret'.ok)
            => /\ ppc' = ppc
               /\ wpc' = wpc
               /\ wtask' = wtask
               /\ pidx' = pidx
               /\ plinks' = plinks
               /\ queue' = queue]_vars
    /\ [][\A w \in Workers :
            (ppc[w] = "split" /\ ppc'[w] = "done")
               => /\ rec'[wtask[w]].status = COMPLETED
                  /\ rec'[wtask[w]].completed_at = At(now)
                  /\ disk'[wtask[w]].status = COMPLETED]_vars
    /\ [](\A w \in Workers :
            (ppc[w] = "ready" /\ LoopFree) => ENABLED ProcessStart(w))

\* a task whose cancel returned True while a worker held it, and which the
\* worker then split: Completed in memory and on disk, with its links, the
\* cancellation message still on it
C22_Witness ==
    \E t \in tasks :
        /\ rec[t].status = COMPLETED
        /\ rec[t].error_message = CancelMessage
        /\ rec[t].download_links # << >>
        /\ disk[t].status = COMPLETED

\* the task_ids of the records an earlier run left on disk
Reloaded == {r.task_id : r \in PreviousRecords}

\* C23: a record loaded from disk as Pending or Processing is never put on
\* the queue and never taken by a worker, and no step other than a
\* successful cancel_task on it changes it: it keeps that status.
C23_ReloadedStuck ==
    /\ [](\A t \in Reloaded :
            /\ Occurrences(queue, t) = 0
            /\ \A w \in Workers : wtask[w] # t)
    /\ [][\A t \in Reloaded \cap tasks :
            (/\ rec[t].status \in {PENDING, PROCESSING}
             /\ ~(ret'.call = "cancel" /\ ret'.ok /\ ret'.task_id = t))
               => /\ t \in tasks'
                  /\ rec'[t] = rec[t]
                  /\ disk'[t] = disk[t]]_vars

\* the Processing record of the earlier run is still Processing after the
\* clock has moved on, a task created in this run has been split, every
\* worker is back at get() and the queue is empty
C23_Witness ==
    /\ 1 \in tasks
    /\ rec[1].status = PROCESSING
    /\ \E t \in tasks : rec[t].status = COMPLETED /\ rec[t].created_at = At(0)
    /\ \A w \in Workers : wpc[w] = "idle"
    /\ queue = << >>
    /\ now = MaxTime

\* the record of task t a save made on this step has written
Current(t) == IF t \in DOMAIN rec' THEN rec'[t] ELSE rec[t]

\* C24: a failing snapshot write changes nothing but the file.  Whatever the
\* write does, create_split_task stores the Pending record, enqueues its id
\* and returns it; cancel_task leaves the record Failed and returns True; the
\* processing task goes from Processing to Completed or Failed and returns to
\* its worker; and a write that succeeds puts the record as it is at that
\* moment into the file.
C24_SaveFailureAbsorbed ==
    /\ [][ret'.call = "create"
            => LET t == ret'.task_id
               IN /\ ret'.ok
                  /\ t \in tasks'
                  /\ rec'[t].status = PENDING
                  /\ queue' = Append(queue, t)]_vars
    /\ [][ret'.call = "cancel"
            => LET t == ret'.task_id
               IN (t \in tasks /\ rec[t].status \in {PENDING, PROCESSING})
                     => /\ ret'.ok
                        /\ rec'[t].status = FAILED
                        /\ rec'[t].error_message = CancelMessage]_vars
    /\ [][\A w \in Workers :
            /\ (ppc[w] = "ready" /\ ppc'[w] # "ready")
                  => (ppc'[w] = "started" /\ rec'[wtask[w]].status = PROCESSING)
            /\ (ppc[w] = "started" /\ ppc'[w] = "done")
                  => (rec'[wtask[w]].status = FAILED /\ wpc'[w] = "await")
            /\ (ppc[w] = "split" /\ ppc'[w] = "done")
                  => /\ rec'[wtask[w]].status = COMPLETED
                     /\ rec'[wtask[w]].download_links = plinks[w]
                     /\ wpc'[w] = "await"]_vars
    /\ [][\A t \in DOMAIN disk' :
            (/\ disk'[t] # Unreadable
             /\ t \in DOMAIN disk => disk'[t] # disk[t])
               => disk'[t] = Dump(Current(t))]_vars
    /\ [](\A w \in Workers :
            /\ (ppc[w] = "ready" /\ LoopFree) => ENABLED ProcessStart(w)
            /\ ppc[w] = "split" => (ENABLED ProcessComplete(w) \/ ENABLED SplitChapter(w, TRUE)))

\* a task that was split while none of its snapshot writes went through and
\* the last one failed after emptying the file, and a task created after it
\* whose snapshot is current
C24_Witness ==
    \E t, u \in tasks :
        /\ rec[t].status = COMPLETED
        /\ t \in DOMAIN disk
        /\ disk[t] = Unreadable
        /\ u # t
        /\ u \in DOMAIN disk
        /\ disk[u] = Dump(rec[u])

\* C25: while the pool runs and every split returns, each task that
\* create_split_task put on the queue is taken off it, and each task in the
\* task map comes to be Completed or Failed.
C25_EveryTaskEnds ==
    \A t \in 1..MaxTasks :
        /\ (Occurrences(queue, t) > 0) ~> (Occurrences(queue, t) = 0)
        /\ (t \in tasks) ~> (t \in DOMAIN rec /\ rec[t].status \in Terminal)

\* every request has been made, the queue is empty, every task is Completed
\* or Failed, one of them Completed, and every worker is back at get()
C25_Witness ==
    /\ nextId = MaxTasks
    /\ queue = << >>
    /\ \A t \in 1..MaxTasks : t \in tasks /\ rec[t].status \in Terminal
    /\ \E t \in tasks : rec[t].status = COMPLETED /\ rec[t].error_message = None
    /\ \A w \in Workers : wpc[w] = "idle"

\* C26: once cancel_task has returned True for a task (its record carries
\* the cancellation message), no step sets the status of that task to
\* Processing.
C26_NoProcessingAfterCancel ==
    [][\A t \in DOMAIN rec :
          (rec[t].error_message = CancelMessage /\ t \in DOMAIN rec')
             => ~(rec[t].status # PROCESSING /\ rec'[t].status = PROCESSING)]_vars

\* C27: once the service is initialized, every snapshot on disk is the
\* snapshot of a record in the task map: a task cleanup_completed_tasks has
\* removed has no snapshot, whatever is written later.
C27_SnapshotsHaveRecords ==
    initialized => (DOMAIN disk) \subseteq tasks

\* C28: a save writes the record as it is when the write runs, and a snapshot
\* that says Completed or Failed is never replaced by one that says Pending
\* or Processing.
C28_TerminalSnapshotStays ==
    [][\A t \in (DOMAIN disk) \cap (DOMAIN disk') :
          /\ disk'[t] # disk[t] => disk'[t] = Dump(Current(t))
          /\ disk[t].status \in Terminal => disk'[t].status \in Terminal]_vars


\* the task_ids waiting in a queue
Waiting(q) == {q[i] : i \in 1..Len(q)} \ {StopSignal}

\* C29: shutdown drains the backlog.  The task_ids that were waiting when
\* stop_workers was called are all taken off the queue before any worker
\* exits, and when stop_workers returns none of them is left in the queue and
\* each has been executed or skipped: its record is Completed or Failed.
C29_ShutdownDrains ==
    /\ [][\A w \in Workers :
             (wpc[w] # "exited" /\ wpc'[w] = "exited")
                => backlog \cap Waiting(queue') = {}]_vars
    /\ [](spc = "returned"
             => /\ backlog \cap Waiting(queue) = {}
                /\ \A t \in backlog : rec[t].status \in Terminal)

\* stop_workers has returned after stopping workers that had a backlog
C29_Witness ==
    /\ spc = "returned"
    /\ backlog # {}
    /\ ExitedWorkers = Workers
    /\ backlog \cap Waiting(queue) = {}

\* what holds of a step once no worker runs any more: nothing is taken off
\* the queue, a create_split_task still returns a new Pending task that is
\* in the task map, on disk and at the back of the queue, and a Pending
\* record stays as it is unless cancel_task fails it
NoWorkIn(q, q2) ==
    /\ Len(q2) >= Len(q)
    /\ \A i \in 1..Len(q) : q2[i] = q[i]
    /\ ret'.call = "create"
          => /\ ret'.task_id \in tasks'
             /\ rec'[ret'.task_id].status = PENDING
             /\ ret'.task_id \in DOMAIN disk'
             /\ disk'[ret'.task_id] = Dump(rec'[ret'.task_id])
             /\ q2 = Append(q, ret'.task_id)
    /\ \A t \in (DOMAIN rec) \cap (DOMAIN rec') :
          rec[t].status = PENDING
             => \/ rec'[t] = rec[t]
                \/ /\ rec'[t].status = FAILED
                   /\ rec'[t].error_message = CancelMessage
                   /\ ret'.call = "cancel"

\* C30 as stated: once stop_workers has returned no worker ever takes anything
\* off the queue; create_split_task still creates, persists and enqueues a
\* Pending task, which stays Pending unless cancelled.
C30_NoWorkAfterStop ==
    [][spc = "returned" => NoWorkIn(queue, queue')]_vars

\* C30, amended: once stop_workers has returned after stopping the workers
\* (it was called after the first use), the workers are never started again,
\* nothing is taken off the queue, and create_split_task still creates,
\* persists and enqueues a Pending task, which stays Pending unless cancelled.
\* A stop_workers called before the first use stops nothing: the first use
\* after it starts the NumWorkers workers.
C30_NoWorkAfterWorkersStopped ==
    [][/\ (spc = "returned" /\ ExitedWorkers = Workers)
             => /\ wpc' = wpc
                /\ workerTasks' = workerTasks
                /\ NoWorkIn(queue, queue')
       /\ (spc = "returned" /\ ~initialized /\ initialized')
             => /\ wpc' = StartWorkers
                /\ workerTasks' = NumWorkers]_vars

\* after the workers were stopped a create_split_task has returned a task
\* that waits in the queue, Pending and persisted
C30_Witness ==
    /\ spc = "returned"
    /\ ExitedWorkers = Workers
    /\ ret.call = "create"
    /\ ret.task_id \in Waiting(queue)
    /\ rec[ret.task_id].status = PENDING
    /\ ret.task_id \in DOMAIN disk
    /\ disk[ret.task_id].status = PENDING

====
